---------------------------- MODULE Spec2Model ----------------------------
(***************************************************************************)
(* State-machine model of the summarization backend (src/index.js and      *)
(* src/unnamed/part_000): the Express handlers for text, transcript and    *)
(* video summarization and the in-memory history endpoints.                *)
(*                                                                         *)
(* Node runs every handler on one event loop: a handler runs without       *)
(* interruption from its start, or from the resumption of an await, to its *)
(* next await or its end.  Each action below is one such run.              *)
(*                                                                         *)
(* JavaScript objects are functions from property names to values; a       *)
(* property that is not set is a key that is not in the domain.            *)
(***************************************************************************)
EXTENDS Integers, Sequences, FiniteSets, TLC

\* ------------------------------------------------------------------ bounds
MaxReq == 2        \* requests that may be in flight at once
MaxSerial == 1     \* connections in use where requests do not share state
MaxSaves == 2      \* save requests the server accepts in one run
MaxNow == 1        \* readings the clock may advance to

VARIABLES
    summaryHistory, \* the reference held by `let summaryHistory`
    heap,           \* the arrays on the JavaScript heap, by address
    nextUuid,       \* number of ids uuidv4() has produced
    now,            \* the reading of Date.now()
    req,            \* the requests in flight, by connection slot
    nSaveReq,       \* save requests received so far
    log,            \* observation: every item save returned, with a tombstone
    peak            \* observation: most save requests pending at once

vars == <<summaryHistory, heap, nextUuid, now, req, nSaveReq, log, peak>>

Reqs == 1 .. MaxReq
\* The connections the specifications of independent requests use.
Serial == {r \in Reqs : r <= MaxSerial}
Addrs == 0 .. (MaxReq + 1)

\* The value of a variable or property that was never given one.
Undefined == "<undefined>"

\* ------------------------------------------------------- JavaScript values
EmptyObject == <<>>

\* { ...a, ...b }: the properties of b override those of a.
Spread(a, b) ==
    [k \in (DOMAIN a) \cup (DOMAIN b) |-> IF k \in DOMAIN b THEN b[k] ELSE a[k]]

\* The falsy values a request field can take here: absent (undefined) and "".
Falsy(v) == v = Undefined \/ v = ""

\* req.body.<k> by destructuring: undefined when the body has no such property.
Field(obj, k) == IF k \in DOMAIN obj THEN obj[k] ELSE Undefined

\* Properties whose values are strings (or undefined) in the response literals.
ScalarKeys == {"summary", "transcript", "error"}

\* res.json(obj): JSON.stringify leaves out every property whose value is
\* undefined.
Json(obj) ==
    [k \in {j \in DOMAIN obj : ~(j \in ScalarKeys /\ obj[j] = Undefined)} |-> obj[k]]

Response(status, obj) == [status |-> status, body |-> Json(obj)]

NoResponse == [status |-> 0, body |-> EmptyObject]

\* ------------------------------------------------------------ identifiers
\* uuidv4() draws 122 random bits; the model takes the library's contract, a
\* value it has not returned before, and names the values in order.
UuidPool == <<"u1", "u2", "u3", "u4", "u5", "u6">>

\* A generator keyed on the clock instead of on fresh randomness.
uuidFromClock == UuidPool[now + 1]

uuidv4 == UuidPool[nextUuid + 1]

DateNow == now

\* ---------------------------------------------------------------- requests
IdleRequest ==
    [route |-> "", pc |-> "idle", body |-> EmptyObject, params |-> EmptyObject,
     locals |-> EmptyObject, error |-> "", failed |-> "", removed |-> FALSE,
     calls |-> [details |-> 0, transcript |-> 0, generateSummary |-> 0, model |-> 0],
     sent |-> 0, resp |-> NoResponse]

NewRequest(route, body, params) ==
    [IdleRequest EXCEPT !.route = route, !.pc = "pending", !.body = body,
                        !.params = params]

Free(r) == req[r].pc \in {"idle", "done"}

Pending(r, route) == req[r].pc = "pending" /\ req[r].route = route

\* res.status(status).json(obj): one more response goes out on the connection.
Send(q, status, obj) ==
    [q EXCEPT !.sent = @ + 1, !.resp = Response(status, obj)]

Respond(r, status, obj) ==
    [Send(req[r], status, obj) EXCEPT !.pc = "done"]

PendingSaves(q) ==
    Cardinality({r \in Reqs : q[r].pc = "pending" /\ q[r].route = "POST /api/history/save"})

\* ----------------------------------------------------------- history store
\* Bodies a client may post to /api/history/save.
SaveBodies ==
    { EmptyObject,
      ("id" :> "u1" @@ "createdAt" :> 99 @@ "summary" :> "s1") }

\* Ids a client may name in DELETE /api/history/:id.
DeleteIds == {UuidPool[i] : i \in 1 .. MaxSaves} \cup {"nope"}

\* The item with the caller's properties written last.
HistoryItemCallerLast(summaryData) ==
    Spread(("id" :> uuidv4 @@ "createdAt" :> DateNow), summaryData)

\* The item keeps a caller-supplied createdAt: createdAt: summaryData.createdAt
\* ?? Date.now().
HistoryItemCallerTime(summaryData) ==
    Spread(summaryData,
           ("id" :> uuidv4 @@
            "createdAt" :> IF "createdAt" \in DOMAIN summaryData
                           THEN summaryData["createdAt"] ELSE DateNow))

HistoryItem(summaryData) ==
    Spread(summaryData, ("id" :> uuidv4 @@ "createdAt" :> DateNow))

\* Array.prototype.unshift in place of push.
Unshift(arr, item) == <<item>> \o arr

\* The push also flags the newest item: every older item gets latest: false.
PushMarkLatest(arr, item) ==
    Append([i \in 1 .. Len(arr) |-> Spread(arr[i], ("latest" :> FALSE))],
           Spread(item, ("latest" :> TRUE)))

Push(arr, item) == Append(arr, item)

\* A filter whose predicate is inverted.
FilterKeepMatching(arr, id) == SelectSeq(arr, LAMBDA item : item["id"] = id)

\* splice(findIndex(...), 1): an id that is not there gives index -1, and
\* splice(-1, 1) removes the last item.
FilterSplice(arr, id) ==
    LET hits == {i \in 1 .. Len(arr) : arr[i]["id"] = id}
        drop == IF hits = {} THEN Len(arr)
                ELSE CHOOSE i \in hits : \A j \in hits : i <= j
        n == IF Len(arr) = 0 THEN 0 ELSE Len(arr) - 1
    IN [i \in 1 .. n |-> IF i < drop THEN arr[i] ELSE arr[i + 1]]

Filter(arr, id) == SelectSeq(arr, LAMBDA item : item["id"] # id)

\* The history array as the response holds it: a reference to the live array.
Alias(ref) == [ref |-> ref]

\* res.json serializes the array at once: the response holds a copy.
Serialize(ref) == [copy |-> heap[ref]]

\* What a reader of a list response's history sees.
Observe(payload) ==
    IF "ref" \in DOMAIN payload THEN heap[payload.ref] ELSE payload.copy

\* Addresses that responses still refer to.
RespRefs ==
    {a \in Addrs : \E r \in Reqs :
        /\ "history" \in DOMAIN req[r].resp.body
        /\ "ref" \in DOMAIN req[r].resp.body["history"]
        /\ req[r].resp.body["history"].ref = a}

\* The address a new array is allocated at: the lowest one nothing refers to.
Alloc ==
    CHOOSE a \in Addrs \ (RespRefs \cup {summaryHistory}) :
        \A b \in Addrs \ (RespRefs \cup {summaryHistory}) : a <= b

Store == heap[summaryHistory]

\* The success flag reporting whether the filter removed anything.
DeleteResultReporting(found) == ("success" :> found)

DeleteResult(found) == ("success" :> TRUE)

ListRoute == "GET /api/history"
SaveRoute == "POST /api/history/save"
DeleteRoute == "DELETE /api/history/:id"

\* A request for one of the history endpoints reaches the server.
ReceiveList(r) ==
    /\ Free(r)
    /\ req' = [req EXCEPT ![r] = NewRequest(ListRoute, EmptyObject, EmptyObject)]
    /\ UNCHANGED <<summaryHistory, heap, nextUuid, now, nSaveReq, log, peak>>

ReceiveSave(r) ==
    /\ Free(r)
    /\ nSaveReq < MaxSaves
    /\ \E b \in SaveBodies :
          req' = [req EXCEPT ![r] = NewRequest(SaveRoute, b, EmptyObject)]
    /\ nSaveReq' = nSaveReq + 1
    /\ peak' = IF PendingSaves(req') > peak THEN PendingSaves(req') ELSE peak
    /\ UNCHANGED <<summaryHistory, heap, nextUuid, now, log>>

ReceiveDelete(r) ==
    /\ Free(r)
    /\ \E id \in DeleteIds :
          req' = [req EXCEPT ![r] = NewRequest(DeleteRoute, EmptyObject, ("id" :> id))]
    /\ UNCHANGED <<summaryHistory, heap, nextUuid, now, nSaveReq, log, peak>>

\* app.get('/api/history')
GetHistory(r) ==
    /\ Pending(r, ListRoute)
    /\ req' = [req EXCEPT ![r] = Respond(r, 200, ("history" :> Serialize(summaryHistory)))]
    /\ UNCHANGED <<summaryHistory, heap, nextUuid, now, nSaveReq, log, peak>>

\* app.post('/api/history/save')
SaveHistory(r) ==
    /\ Pending(r, SaveRoute)
    /\ LET historyItem == HistoryItem(req[r].body) IN
          /\ heap' = [heap EXCEPT ![summaryHistory] = Push(@, historyItem)]
          /\ req' = [req EXCEPT ![r] = Respond(r, 200, ("item" :> historyItem))]
          /\ log' = Append(log, [item |-> historyItem, deleted |-> FALSE])
    /\ nextUuid' = nextUuid + 1
    /\ UNCHANGED <<summaryHistory, now, nSaveReq, peak>>

\* app.delete('/api/history/:id')
DeleteHistory(r) ==
    /\ Pending(r, DeleteRoute)
    /\ LET id == req[r].params["id"]
           kept == Filter(Store, id)
           found == Len(kept) < Len(Store)
           fresh == Alloc
       IN /\ summaryHistory' = fresh
          /\ heap' = [a \in Addrs |->
                        IF a = fresh THEN kept
                        ELSE IF a \in RespRefs THEN heap[a] ELSE <<>>]
          /\ req' = [req EXCEPT ![r] =
                        [Respond(r, 200, DeleteResult(found)) EXCEPT !.removed = found]]
          /\ log' = [i \in DOMAIN log |->
                        IF log[i].item["id"] = id
                        THEN [log[i] EXCEPT !.deleted = TRUE] ELSE log[i]]
    /\ UNCHANGED <<nextUuid, now, nSaveReq, peak>>

\* Date.now() advances between handler runs.
Tick ==
    /\ now < MaxNow
    /\ now' = now + 1
    /\ UNCHANGED <<summaryHistory, heap, nextUuid, req, nSaveReq, log, peak>>

\* ------------------------------------------------------------ summarization
TextRoute == "POST /api/summarize"
TranscriptRoute == "POST /api/summarize-transcript"
LegacyVideoRoute == "POST /summarize"
YoutubeRoute == "POST /api/summarize-youtube"
StubVideoRoute == "POST /summarize (placeholder)"

VideoRoutes == {LegacyVideoRoute, YoutubeRoute}
SummaryRoutes == {TextRoute, TranscriptRoute, LegacyVideoRoute, YoutubeRoute, StubVideoRoute}

\* The field each handler requires of the request body.
RequiredField(route) ==
    CASE route = TextRoute -> "content"
      [] route = TranscriptRoute -> "transcript"
      [] OTHER -> "videoId"

\* Values a client may send for the required field and for type.
PayloadInputs == {Undefined, "", "abc123"}
TypeInputs == {Undefined, "", "short", "medium", "long", "xl"}

\* The handlers of /summarize never read type: their requests come without it.
TypesRead(route) ==
    IF route \in {LegacyVideoRoute, StubVideoRoute} THEN {Undefined} ELSE TypeInputs

\* What the upstream services may answer.
TranscriptAnswers == {Undefined, "", "hello world"}
ModelTexts == {"a summary"}

\* A body with the properties that were given a value.
Body(field, payload, type) ==
    LET p == IF payload = Undefined THEN EmptyObject ELSE (field :> payload)
        t == IF type = Undefined THEN EmptyObject ELSE ("type" :> type)
    IN Spread(p, t)

\* A check of the wrong property of the body.
RejectedOnType(body, field) == Falsy(Field(body, "type"))

\* if (!content) / if (!transcript) / if (!videoId)
Rejected(body, field) == Falsy(Field(body, field))

ValidationMessage(route) ==
    CASE route = TextRoute -> "Content is required"
      [] route = TranscriptRoute -> "Transcript is required"
      [] route = StubVideoRoute -> "videoId is required"
      [] OTHER -> "Video ID is required"

ServiceMessage(route) ==
    CASE route \in {TextRoute, TranscriptRoute} -> "Failed to generate summary"
      [] route = StubVideoRoute -> "Failed to summarize video"
      [] OTHER -> "Failed to summarize YouTube video"

\* The messages of the errors the three helpers throw.
DetailsError == "Failed to fetch video details"
\* A transcript failure reported with the message of the metadata failure.
TranscriptErrorAsDetails == "Failed to fetch video details"
TranscriptError == "Failed to fetch video transcript"
GenerateError == "Failed to generate summary"
UpstreamError == "model call rejected"

\* function generateSummary(content, type = 'medium'): the default applies to
\* an undefined argument only.
DefaultType(type) == IF type = Undefined THEN "medium" ELSE type

\* The switch without its default branch: lengthInstruction stays ''.
LengthInstructionNoDefault(type) ==
    CASE type = "short" -> "Create a very concise summary in 2-3 sentences."
      [] type = "medium" -> "Create a comprehensive summary in 4-6 sentences."
      [] type = "long" ->
            "Create a detailed summary covering all main points in about 8-10 sentences."
      [] OTHER -> ""

LengthInstruction(type) ==
    CASE type = "short" -> "Create a very concise summary in 2-3 sentences."
      [] type = "medium" -> "Create a comprehensive summary in 4-6 sentences."
      [] type = "long" ->
            "Create a detailed summary covering all main points in about 8-10 sentences."
      [] OTHER -> "Create a comprehensive summary in 4-6 sentences."

\* `${content}` in the template literal.
Interpolate(v) == IF v = Undefined THEN "undefined" ELSE v

Prompt(content, type) ==
    [instruction |-> LengthInstruction(DefaultType(type)), content |-> Interpolate(content)]

\* type || 'medium'
OrMedium(type) == IF Falsy(type) THEN "medium" ELSE type

\* The handler's catch: the error is logged and a 500 is sent.
Catch(q, thrown) ==
    [Send(q, 500, ("error" :> ServiceMessage(q.route)))
        EXCEPT !.pc = "done", !.error = thrown]

\* generateSummary up to its await: the prompt is built and sent to the model.
CallGenerateSummary(q, content, type) ==
    [q EXCEPT !.pc = "awaitModel",
              !.locals = Spread(@, ("prompt" :> Prompt(content, type))),
              !.calls.generateSummary = @ + 1,
              !.calls.model = @ + 1]

\* Both lookups started together, as with Promise.all.
CallBothLookups(q) ==
    [q EXCEPT !.pc = "awaitDetails", !.calls.details = @ + 1,
              !.calls.transcript = @ + 1]

\* getVideoDetails up to its await: the metadata request is sent.
CallGetVideoDetails(q) ==
    [q EXCEPT !.pc = "awaitDetails", !.calls.details = @ + 1]

\* getYouTubeTranscript up to its await: the transcript request is sent.
CallGetYouTubeTranscript(q) ==
    [q EXCEPT !.pc = "awaitTranscript", !.calls.transcript = @ + 1]

\* The 400 is sent without the return: the handler goes on to its first call.
RejectNoReturn(q) ==
    LET sent == Send(q, 400, ("error" :> ValidationMessage(q.route)))
    IN IF q.route \in VideoRoutes THEN CallGetVideoDetails(sent)
       ELSE IF q.route = StubVideoRoute
       THEN [sent EXCEPT !.pc = "awaitModel", !.calls.model = @ + 1]
       ELSE CallGenerateSummary(sent, Field(q.body, RequiredField(q.route)),
                                Field(q.body, "type"))

\* return res.status(400).json({ error: ... })
Reject(q) ==
    [Send(q, 400, ("error" :> ValidationMessage(q.route))) EXCEPT !.pc = "done"]

\* The transcript failure is swallowed and the handler goes on.
TranscriptFailedGoOn(q) ==
    CallGenerateSummary([q EXCEPT !.failed = "transcript",
                                  !.locals = Spread(@, ("transcript" :> Undefined))],
                        Undefined, "medium")

\* getYouTubeTranscript's catch rethrows; the handler's catch answers.
TranscriptFailed(q) == Catch([q EXCEPT !.failed = "transcript"], TranscriptError)

ReceiveSummarize(r) ==
    /\ Free(r)
    /\ \E route \in SummaryRoutes, payload \in PayloadInputs :
       \E type \in TypesRead(route) :
          req' = [req EXCEPT ![r] =
                    NewRequest(route, Body(RequiredField(route), payload, type), EmptyObject)]
    /\ UNCHANGED <<summaryHistory, heap, nextUuid, now, nSaveReq, log, peak>>

\* app.post('/api/summarize') to its first await.
SummarizeText(r) ==
    /\ Pending(r, TextRoute)
    /\ LET content == Field(req[r].body, "content")
           type == Field(req[r].body, "type")
       IN req' = [req EXCEPT ![r] =
                    IF Rejected(req[r].body, "content") THEN Reject(req[r])
                    ELSE CallGenerateSummary(req[r], content, type)]
    /\ UNCHANGED <<summaryHistory, heap, nextUuid, now, nSaveReq, log, peak>>

\* app.post('/api/summarize-transcript') to its first await.
SummarizeTranscript(r) ==
    /\ Pending(r, TranscriptRoute)
    /\ LET transcript == Field(req[r].body, "transcript")
           type == Field(req[r].body, "type")
       IN req' = [req EXCEPT ![r] =
                    IF Rejected(req[r].body, "transcript") THEN Reject(req[r])
                    ELSE CallGenerateSummary(req[r], transcript, type)]
    /\ UNCHANGED <<summaryHistory, heap, nextUuid, now, nSaveReq, log, peak>>

\* app.post('/summarize') and app.post('/api/summarize-youtube') to their
\* first await.
SummarizeVideo(r) ==
    /\ \E route \in VideoRoutes : Pending(r, route)
    /\ req' = [req EXCEPT ![r] =
                    IF Rejected(req[r].body, "videoId") THEN Reject(req[r])
                    ELSE CallGetVideoDetails(req[r])]
    /\ UNCHANGED <<summaryHistory, heap, nextUuid, now, nSaveReq, log, peak>>

\* The placeholder app.post("/summarize") to its first await: the model is
\* called directly, without generateSummary and without any lookup.
SummarizeStub(r) ==
    /\ Pending(r, StubVideoRoute)
    /\ req' = [req EXCEPT ![r] =
                    IF Rejected(req[r].body, "videoId") THEN Reject(req[r])
                    ELSE [req[r] EXCEPT !.pc = "awaitModel", !.calls.model = @ + 1]]
    /\ UNCHANGED <<summaryHistory, heap, nextUuid, now, nSaveReq, log, peak>>

\* The metadata request answers or fails.
VideoDetailsReturn(r) ==
    /\ req[r].pc = "awaitDetails"
    /\ LET videoId == Field(req[r].body, "videoId")
           videoData == ("videoId" :> videoId @@ "title" :> "T")
       IN \/ req' = [req EXCEPT ![r] =
                        CallGetYouTubeTranscript(
                            [req[r] EXCEPT !.locals = Spread(@, ("videoData" :> videoData))])]
          \/ req' = [req EXCEPT ![r] =
                        Catch([req[r] EXCEPT !.failed = "details"], DetailsError)]
    /\ UNCHANGED <<summaryHistory, heap, nextUuid, now, nSaveReq, log, peak>>

\* The transcript request answers or fails.
TranscriptReturn(r) ==
    /\ req[r].pc = "awaitTranscript"
    /\ \/ \E transcript \in TranscriptAnswers :
            LET q == [req[r] EXCEPT !.locals = Spread(@, ("transcript" :> transcript))]
                type == IF req[r].route = YoutubeRoute
                        THEN OrMedium(Field(req[r].body, "type"))
                        ELSE "medium"
            IN req' = [req EXCEPT ![r] = CallGenerateSummary(q, transcript, type)]
       \/ req' = [req EXCEPT ![r] = TranscriptFailed(req[r])]
    /\ UNCHANGED <<summaryHistory, heap, nextUuid, now, nSaveReq, log, peak>>

\* The object the handler answers with once the summary is there.
SuccessBody(q, summary) ==
    CASE q.route \in {TextRoute, TranscriptRoute} -> ("summary" :> summary)
      [] q.route = StubVideoRoute ->
            ( "videoData" :> ("videoId" :> Field(q.body, "videoId") @@ "title" :> "Dummy Title")
              @@ "summary" :> summary
              @@ "transcript" :> "Transcript not implemented" )
      [] OTHER ->
            ( "videoData" :> q.locals["videoData"]
              @@ "summary" :> summary
              @@ "transcript" :> q.locals["transcript"] )

\* The model call is made again after a failure, once.
ModelFailedRetry(q) ==
    IF q.calls.model < 2
    THEN [q EXCEPT !.calls.model = @ + 1]
    ELSE Catch([q EXCEPT !.failed = "model"],
               IF q.route = StubVideoRoute THEN UpstreamError ELSE GenerateError)

\* generateSummary's catch rethrows (the placeholder has no such catch); the
\* handler's catch answers.
ModelFailed(q) ==
    Catch([q EXCEPT !.failed = "model"],
          IF q.route = StubVideoRoute THEN UpstreamError ELSE GenerateError)

\* The handler also files the summary it made in the history.
ModelReturnAutoSave(r) ==
    /\ req[r].pc = "awaitModel"
    /\ \/ \E text \in ModelTexts :
            /\ req' = [req EXCEPT ![r] =
                          [Send(req[r], 200, SuccessBody(req[r], text))
                              EXCEPT !.pc = "done",
                                     !.locals = Spread(@, ("summary" :> text))]]
            /\ heap' = [heap EXCEPT ![summaryHistory] =
                                        Push(@, HistoryItem(("summary" :> text)))]
       \/ req' = [req EXCEPT ![r] = ModelFailed(req[r])] /\ heap' = heap
    /\ UNCHANGED <<summaryHistory, nextUuid, now, nSaveReq, log, peak>>

\* The model call answers or fails.
ModelReturn(r) ==
    /\ req[r].pc = "awaitModel"
    /\ \/ \E text \in ModelTexts :
            req' = [req EXCEPT ![r] =
                        [Send(req[r], 200, SuccessBody(req[r], text))
                            EXCEPT !.pc = "done",
                                   !.locals = Spread(@, ("summary" :> text))]]
       \/ req' = [req EXCEPT ![r] = ModelFailed(req[r])]
    /\ UNCHANGED <<summaryHistory, heap, nextUuid, now, nSaveReq, log, peak>>

\* ---------------------------------------------------------- specifications
Init ==
    /\ summaryHistory = 0
    /\ heap = [a \in Addrs |-> <<>>]
    /\ nextUuid = 0
    /\ now = 0
    /\ req = [r \in Reqs |-> IdleRequest]
    /\ nSaveReq = 0
    /\ log = <<>>
    /\ peak = 0

HistoryStep(R) ==
    \/ \E r \in R : ReceiveList(r)
    \/ \E r \in R : ReceiveSave(r)
    \/ \E r \in R : ReceiveDelete(r)
    \/ \E r \in R : GetHistory(r)
    \/ \E r \in R : SaveHistory(r)
    \/ \E r \in R : DeleteHistory(r)
    \/ Tick

\* The history endpoints, requests on every connection.
NextHistory == HistoryStep(Reqs)

SpecHistory == Init /\ [][NextHistory]_vars

\* The history endpoints, one request after another.
NextStore == HistoryStep(Serial)

SpecStore == Init /\ [][NextStore]_vars

\* Lists on the serial connections, saves and deletes on the others.
NextSnapshot ==
    \/ \E r \in Serial : ReceiveList(r)
    \/ \E r \in Serial : GetHistory(r)
    \/ \E r \in Reqs \ Serial : ReceiveSave(r)
    \/ \E r \in Reqs \ Serial : ReceiveDelete(r)
    \/ \E r \in Reqs \ Serial : SaveHistory(r)
    \/ \E r \in Reqs \ Serial : DeleteHistory(r)
    \/ Tick

SpecSnapshot == Init /\ [][NextSnapshot]_vars

\* Save requests alone, any number of them pending at once.
NextSaves ==
    \/ \E r \in Reqs : ReceiveSave(r)
    \/ \E r \in Reqs : SaveHistory(r)
    \/ Tick

SpecSaves == Init /\ [][NextSaves]_vars

SummarizeStep(R) ==
    \/ \E r \in R : ReceiveSummarize(r)
    \/ \E r \in R : SummarizeText(r)
    \/ \E r \in R : SummarizeTranscript(r)
    \/ \E r \in R : SummarizeVideo(r)
    \/ \E r \in R : SummarizeStub(r)
    \/ \E r \in R : VideoDetailsReturn(r)
    \/ \E r \in R : TranscriptReturn(r)
    \/ \E r \in R : ModelReturn(r)

\* The summarization endpoints: their requests share no state.
NextSummarize == SummarizeStep(Serial)

SpecSummarize == Init /\ [][NextSummarize]_vars

\* A request's own steps after its arrival: the handler and the returns of the
\* calls it awaits.
Handle(r) ==
    \/ GetHistory(r)
    \/ SaveHistory(r)
    \/ DeleteHistory(r)
    \/ SummarizeText(r)
    \/ SummarizeTranscript(r)
    \/ SummarizeVideo(r)
    \/ SummarizeStub(r)
    \/ VideoDetailsReturn(r)
    \/ TranscriptReturn(r)
    \/ ModelReturn(r)

\* Saves on the serial connections, deletes and lists on the others.
NextRace ==
    \/ \E r \in Serial : ReceiveSave(r)
    \/ \E r \in Serial : SaveHistory(r)
    \/ \E r \in Reqs \ Serial : ReceiveDelete(r)
    \/ \E r \in Reqs \ Serial : ReceiveList(r)
    \/ \E r \in Reqs \ Serial : DeleteHistory(r)
    \/ \E r \in Reqs \ Serial : GetHistory(r)

SpecRace == Init /\ [][NextRace]_vars

\* The whole server: history requests on the serial connections,
\* summarization requests on the others. Node runs every handler that is ready
\* and every upstream call returns or fails.
NextServer ==
    \/ \E r \in Serial : ReceiveList(r)
    \/ \E r \in Serial : ReceiveSave(r)
    \/ \E r \in Serial : ReceiveDelete(r)
    \/ \E r \in Serial : GetHistory(r)
    \/ \E r \in Serial : SaveHistory(r)
    \/ \E r \in Serial : DeleteHistory(r)
    \/ SummarizeStep(Reqs \ Serial)

SpecServer == Init /\ [][NextServer]_vars /\ \A r \in Reqs : WF_vars(Handle(r))

\* One connection that carries history and summarization requests in turn.
NextTurns ==
    \/ SummarizeStep(Reqs \ Serial)
    \/ \E r \in Reqs \ Serial : ReceiveList(r)
    \/ \E r \in Reqs \ Serial : ReceiveSave(r)
    \/ \E r \in Reqs \ Serial : ReceiveDelete(r)
    \/ \E r \in Reqs \ Serial : GetHistory(r)
    \/ \E r \in Reqs \ Serial : SaveHistory(r)
    \/ \E r \in Reqs \ Serial : DeleteHistory(r)

SpecTurns == Init /\ [][NextTurns]_vars

Next == SummarizeStep(Reqs) \/ HistoryStep(Reqs)

Spec == Init /\ [][Next]_vars

\* ------------------------------------------------------------------ claims
Done(r, routes) == req[r].pc = "done" /\ req[r].route \in routes

NoUpstreamCalls(r) ==
    /\ req[r].calls.details = 0
    /\ req[r].calls.transcript = 0
    /\ req[r].calls.generateSummary = 0
    /\ req[r].calls.model = 0

\* C1: on /summarize and /api/summarize-youtube, generateSummary has been
\* invoked only for requests whose metadata lookup and transcript lookup both
\* returned; a request one of whose lookups failed never invokes
\* generateSummary and never ends in a success response.
C1_GenerateOnlyAfterBothLookups ==
    \A r \in Reqs : req[r].route \in VideoRoutes =>
        /\ req[r].calls.generateSummary > 0 =>
              /\ req[r].calls.details = 1
              /\ req[r].calls.transcript = 1
              /\ "videoData" \in DOMAIN req[r].locals
              /\ "transcript" \in DOMAIN req[r].locals
              /\ req[r].failed \notin {"details", "transcript"}
        /\ req[r].failed \in {"details", "transcript"} =>
              /\ req[r].calls.generateSummary = 0
              /\ req[r].pc = "done"
              /\ req[r].resp.status = 500

\* A request whose metadata lookup returned and whose transcript lookup failed
\* has been answered.
C1_Witness ==
    \E r \in Reqs :
        /\ Done(r, VideoRoutes)
        /\ "videoData" \in DOMAIN req[r].locals
        /\ req[r].failed = "transcript"
        /\ req[r].calls.generateSummary = 0
        /\ req[r].resp.status = 500

\* C2: a summarization request whose required field is absent ends in the
\* validation failure (400) and makes no upstream call: no metadata lookup, no
\* transcript lookup, no generateSummary, no model invocation.
C2_ValidationBeforeUpstream ==
    \A r \in Reqs :
        (/\ req[r].route \in SummaryRoutes
         /\ RequiredField(req[r].route) \notin DOMAIN req[r].body) =>
            /\ NoUpstreamCalls(r)
            /\ req[r].pc \in {"pending", "done"}
            /\ req[r].pc = "done" =>
                  /\ req[r].resp.status = 400
                  /\ req[r].resp.body = ("error" :> ValidationMessage(req[r].route))

\* A request without its required field but with a type has been answered.
C2_Witness ==
    \E r \in Reqs :
        /\ Done(r, SummaryRoutes)
        /\ RequiredField(req[r].route) \notin DOMAIN req[r].body
        /\ "type" \in DOMAIN req[r].body
        /\ req[r].resp.status = 400

\* C3: the error that reaches the handler when video resolution fails tells
\* which lookup failed: a failed metadata lookup arrives as "Failed to fetch
\* video details", a failed transcript lookup as "Failed to fetch video
\* transcript", and the two are never the same.
C3_LookupFailuresDistinct ==
    \A r \in Reqs : req[r].route \in VideoRoutes =>
        /\ req[r].failed = "details" => req[r].error = "Failed to fetch video details"
        /\ req[r].failed = "transcript" => req[r].error = "Failed to fetch video transcript"
        /\ \A s \in Reqs :
              (/\ req[s].route \in VideoRoutes
               /\ req[r].failed = "details"
               /\ req[s].failed = "transcript") => req[r].error # req[s].error

\* A request ended by a failed transcript lookup holds that lookup's error.
C3_Witness ==
    \E r \in Reqs :
        /\ Done(r, VideoRoutes)
        /\ req[r].failed = "transcript"
        /\ req[r].error = TranscriptError

ResultKeys == {"videoData", "summary", "transcript"}

\* C4: every response to a video summarization request either is a success
\* that carries videoData, summary and transcript, all three, or is an error
\* response that carries none of them.
C4_NoPartialResult ==
    \A r \in Reqs : Done(r, VideoRoutes \cup {StubVideoRoute}) =>
        \/ /\ req[r].resp.status = 200
           /\ ResultKeys \subseteq DOMAIN req[r].resp.body
        \/ /\ req[r].resp.status \in {400, 500}
           /\ ResultKeys \cap DOMAIN req[r].resp.body = {}

\* The items the log says are in the store: saved, and not deleted since.
Expected ==
    LET alive == SelectSeq(log, LAMBDA e : ~e.deleted)
    IN [i \in 1 .. Len(alive) |-> alive[i].item]

Ids(arr) == {arr[i]["id"] : i \in 1 .. Len(arr)}

\* C5: the ids save has returned, those of items since deleted included, are
\* pairwise different, every item a save returned is one of them, and the ids
\* of the items in the store are pairwise different.
C5_SaveIdsUnique ==
    /\ \A i, j \in 1 .. Len(log) : i # j => log[i].item["id"] # log[j].item["id"]
    /\ \A i, j \in 1 .. Len(Store) : i # j => Store[i]["id"] # Store[j]["id"]
    /\ \A r \in Reqs : Done(r, {SaveRoute}) =>
          \E i \in 1 .. Len(log) : log[i].item = req[r].resp.body["item"]

\* A save whose caller sent the id of an earlier item, made after that item
\* was deleted.
C5_Witness ==
    \E r \in Reqs :
        /\ Done(r, {SaveRoute})
        /\ Len(log) = 2
        /\ log[1].deleted
        /\ Field(req[r].body, "id") = log[1].item["id"]
        /\ req[r].resp.body["item"] = log[2].item

\* C6: once no save request is pending, the store holds one item for every
\* save request received, in whatever order their handlers ran, and the items
\* have as many different ids.
C6_ConcurrentSavesAllKept ==
    PendingSaves(req) = 0 =>
        /\ Len(Store) = nSaveReq
        /\ Cardinality(Ids(Store)) = nSaveReq

\* Two saves were pending together and both have been handled.
C6_Witness ==
    /\ peak >= 2
    /\ PendingSaves(req) = 0
    /\ Len(Store) = nSaveReq
    /\ \A r \in Reqs : Done(r, {SaveRoute})

\* C7 (as stated): the result of a delete reports whether something was
\* removed: success is true for an id that was in the store and false for one
\* that was not.
C7_DeleteReportsRemoval ==
    \A r \in Reqs : Done(r, {DeleteRoute}) =>
        /\ req[r].resp.status = 200
        /\ req[r].resp.body["success"] = req[r].removed

\* C7 (amended): a delete is never an error and its result is the same
\* { success: true } whether or not the id was in the store.
C7_DeleteAlwaysSucceeds ==
    \A r \in Reqs : Done(r, {DeleteRoute}) =>
        /\ req[r].resp.status = 200
        /\ req[r].resp.body = ("success" :> TRUE)

\* A delete that removed nothing from a store holding an item was answered
\* with success.
C7_Witness ==
    \E r \in Reqs :
        /\ Done(r, {DeleteRoute})
        /\ ~req[r].removed
        /\ Len(Store) > 0
        /\ req[r].resp.body["success"]

\* C8: a delete of an id that is not in the store leaves the store as it was,
\* contents and order; after any delete, deleting the same id again changes
\* nothing; and a delete keeps every item of another id.
C8_DeleteIdempotent ==
    [][\A r \in Reqs :
          (Pending(r, DeleteRoute) /\ req'[r].pc = "done") =>
              LET id == req[r].params["id"] IN
                 /\ id \notin Ids(Store) => Store' = Store
                 /\ Filter(Store', id) = Store'
                 /\ \A i \in 1 .. Len(Store) :
                       Store[i]["id"] # id => \E j \in 1 .. Len(Store') : Store'[j] = Store[i]
      ]_vars

\* A delete of an absent id was answered with both saved items still in the
\* store.
C8_Witness ==
    \E r \in Reqs :
        /\ Done(r, {DeleteRoute})
        /\ ~req[r].removed
        /\ req[r].params["id"] \notin Ids(Store)
        /\ Len(Store) = 2

\* C9: what a list response holds does not change afterwards, whatever is
\* saved or deleted while the response is kept.
C9_ListIsSnapshot ==
    [][\A r \in Reqs :
          (Done(r, {ListRoute}) /\ req'[r] = req[r]) =>
              Observe(req[r].resp.body["history"])' = Observe(req[r].resp.body["history"])
      ]_vars

\* A list response that differs from the store as it is now.
C9_Witness ==
    \E r \in Reqs :
        /\ Done(r, {ListRoute})
        /\ Observe(req[r].resp.body["history"]) # Store

\* C10: the store, and with it every list response at the time it is made,
\* holds exactly the items that were saved and not deleted since, in the order
\* of their saves.
C10_ListInSaveOrder ==
    [][/\ Store' = Expected'
       /\ \A r \in Reqs :
             (Pending(r, ListRoute) /\ req'[r].pc = "done") =>
                 Observe(req'[r].resp.body["history"]) = Expected
      ]_vars

\* A list made after two saves and the delete of the first returned the second
\* item alone.
C10_Witness ==
    \E r \in Reqs :
        /\ Done(r, {ListRoute})
        /\ Len(log) = 2
        /\ log[1].deleted
        /\ ~log[2].deleted
        /\ Observe(req[r].resp.body["history"]) = <<log[2].item>>

\* The three instructions, as the source writes them.
ShortInstruction == "Create a very concise summary in 2-3 sentences."
MediumInstruction == "Create a comprehensive summary in 4-6 sentences."
LongInstruction ==
    "Create a detailed summary covering all main points in about 8-10 sentences."

\* C11: the prompt generateSummary sends carries the instruction of 'short'
\* for type 'short', that of 'long' for type 'long', and that of 'medium' for
\* 'medium', for an absent type and for every other value, with the content
\* unchanged; /summarize always sends that of 'medium'; the three instructions
\* differ.
C11_ModeToInstruction ==
    /\ ShortInstruction # MediumInstruction
    /\ MediumInstruction # LongInstruction
    /\ ShortInstruction # LongInstruction
    /\ \A r \in Reqs :
          (req[r].route \in SummaryRoutes \ {StubVideoRoute}
             /\ "prompt" \in DOMAIN req[r].locals) =>
              LET type == Field(req[r].body, "type")
                  prompt == req[r].locals["prompt"]
                  content == IF req[r].route \in VideoRoutes
                             THEN req[r].locals["transcript"]
                             ELSE req[r].body[RequiredField(req[r].route)]
              IN /\ prompt.instruction =
                        IF req[r].route = LegacyVideoRoute THEN MediumInstruction
                        ELSE IF type = "short" THEN ShortInstruction
                        ELSE IF type = "long" THEN LongInstruction
                        ELSE MediumInstruction
                 /\ content # Undefined => prompt.content = content

\* A prompt was sent for a request whose type is none of the three modes.
C11_Witness ==
    \E r \in Reqs :
        /\ req[r].route \in {TextRoute, TranscriptRoute, YoutubeRoute}
        /\ "prompt" \in DOMAIN req[r].locals
        /\ Field(req[r].body, "type") = "xl"
        /\ req[r].locals["prompt"].instruction = MediumInstruction

\* C12: in one request the model is invoked at most once, and exactly once
\* when generation was reached; generateSummary, the metadata lookup and the
\* transcript lookup are each invoked at most once, also when a call failed.
C12_NoRetry ==
    \A r \in Reqs : req[r].route \in SummaryRoutes =>
        /\ req[r].calls.model <= 1
        /\ req[r].calls.generateSummary <= 1
        /\ req[r].calls.details <= 1
        /\ req[r].calls.transcript <= 1
        /\ (req[r].pc = "awaitModel" \/ req[r].failed = "model"
              \/ "summary" \in DOMAIN req[r].locals) => req[r].calls.model = 1

\* A request whose model call failed has been answered after one call.
C12_Witness ==
    \E r \in Reqs :
        /\ Done(r, SummaryRoutes)
        /\ req[r].failed = "model"
        /\ req[r].calls.model = 1
        /\ req[r].resp.status = 500

\* C13: on the video routes generateSummary is invoked only with a transcript
\* that is a non-empty string.
C13_ResolvedTextNonEmpty ==
    \A r \in Reqs :
        (req[r].route \in VideoRoutes /\ req[r].calls.generateSummary > 0) =>
            /\ req[r].locals["transcript"] # Undefined
            /\ req[r].locals["transcript"] # ""

\* C18: on the video routes the transcript lookup starts only after the
\* metadata lookup returned, and the model is invoked only after the
\* transcript lookup returned; a request whose metadata lookup failed starts
\* neither.
C18_LookupsInOrder ==
    \A r \in Reqs : req[r].route \in VideoRoutes =>
        /\ req[r].calls.transcript > 0 =>
              req[r].calls.details = 1 /\ "videoData" \in DOMAIN req[r].locals
        /\ req[r].calls.model > 0 =>
              req[r].calls.transcript = 1 /\ "transcript" \in DOMAIN req[r].locals
        /\ req[r].pc = "awaitDetails" => req[r].calls.transcript = 0
        /\ req[r].failed = "details" =>
              req[r].calls.transcript = 0 /\ req[r].calls.model = 0

\* A request whose metadata lookup failed was answered with no transcript
\* lookup made.
C18_Witness ==
    \E r \in Reqs :
        /\ Done(r, VideoRoutes)
        /\ req[r].failed = "details"
        /\ req[r].calls.details = 1
        /\ req[r].calls.transcript = 0

\* C14: the item a save stores and returns has the id the store generated and
\* the clock's time of the insertion as createdAt, whatever id and createdAt
\* the body carried, and every other field of the body with its value.
C14_StoreAssignsIdAndTime ==
    [][\A r \in Reqs :
          (Pending(r, SaveRoute) /\ req'[r].pc = "done") =>
              LET item == req'[r].resp.body["item"]
                  body == req[r].body
                  stored == heap'[summaryHistory'][Len(heap'[summaryHistory'])]
              IN /\ stored = item
                 /\ item["id"] = UuidPool[nextUuid + 1]
                 /\ item["createdAt"] = now
                 /\ DOMAIN item = DOMAIN body \cup {"id", "createdAt"}
                 /\ \A k \in DOMAIN body \ {"id", "createdAt"} :
                        item[k] = body[k]]_vars

\* A save whose body carried its own id and createdAt was answered with an
\* item that has neither of them and keeps the body's summary.
C14_Witness ==
    \E r \in Reqs :
        /\ Done(r, {SaveRoute})
        /\ "id" \in DOMAIN req[r].body
        /\ req[r].resp.body["item"]["id"] # req[r].body["id"]
        /\ req[r].resp.body["item"]["createdAt"] # req[r].body["createdAt"]
        /\ req[r].resp.body["item"]["summary"] = req[r].body["summary"]

\* C15: under every interleaving of pending saves, deletes and lists, a delete
\* leaves in the store exactly the items whose id is not the one it was asked
\* for, in their order, the items of saves handled while it waited included;
\* a save appends its one item to whatever the store holds; a list answers
\* with the store as it is, every item of it whole; and every item saved and
\* not deleted since is in the store.
C15_SaveDeleteExclusive ==
    /\ [](\A i \in 1 .. Len(log) :
             ~log[i].deleted => \E j \in 1 .. Len(Store) : Store[j] = log[i].item)
    /\ [][\A r \in Reqs :
             req'[r].pc = "done" =>
                /\ Pending(r, DeleteRoute) =>
                      Store' = SelectSeq(Store,
                                  LAMBDA item : item["id"] # req[r].params["id"])
                /\ Pending(r, SaveRoute) =>
                      Store' = Append(Store, req'[r].resp.body["item"])
                /\ Pending(r, ListRoute) =>
                      /\ Observe(req'[r].resp.body["history"]) = Store
                      /\ \A i \in 1 .. Len(Store) :
                            \E j \in 1 .. Len(log) : log[j].item = Store[i]
                      /\ Store' = Store]_vars

\* A delete removed the one stored item while a save was waiting for its turn.
C15_Witness ==
    \E r, s \in Reqs :
        /\ Done(r, {DeleteRoute})
        /\ req[r].removed
        /\ Pending(s, SaveRoute)
        /\ Len(log) = 1
        /\ Store = <<>>

\* C16: an item that is in the store before a step and whose id is in the
\* store after it is in the store after it with every field as before.
C16_ItemsImmutable ==
    [][\A i \in 1 .. Len(Store) :
          Store[i]["id"] \in Ids(Store') =>
              \E j \in 1 .. Len(Store') : Store'[j] = Store[i]]_vars

\* The first item saved is in the store as it was logged, after a second
\* save, the delete of the second item and a summarization that succeeded.
C16_Witness ==
    /\ Len(log) = 2
    /\ log[2].deleted
    /\ Store = <<log[1].item>>
    /\ \E r \in Reqs : Done(r, SummaryRoutes) /\ req[r].resp.status = 200

\* C17: a step of a summarization request, its arrival included, leaves the
\* history array and every item of it as they were; the store's contents
\* change only in the step that handles a save or a delete.
C17_SummarizeLeavesStore ==
    [][/\ (\E r \in Reqs : req'[r] # req[r] /\ req'[r].route \in SummaryRoutes) =>
              /\ summaryHistory' = summaryHistory
              /\ heap' = heap
              /\ nextUuid' = nextUuid
       /\ Store' # Store =>
              \E r \in Reqs : /\ Pending(r, SaveRoute) \/ Pending(r, DeleteRoute)
                              /\ req'[r].pc = "done"]_vars

\* A summarization was answered with its summary while the store held an item.
C17_Witness ==
    \E r \in Reqs :
        /\ Done(r, SummaryRoutes)
        /\ req[r].resp.status = 200
        /\ "summary" \in DOMAIN req[r].resp.body
        /\ Len(Store) > 0

\* C19: a request has sent no response until it is done and exactly one when
\* it is done; a step changes the state of one request only, so a failure in
\* one request leaves every other request as it was; and every request that
\* arrived is answered in the end: no connection holds an unanswered request
\* for ever.
C19_ExactlyOneResponse ==
    /\ [](\A r \in Reqs : /\ req[r].sent <= 1
                          /\ req[r].pc = "done" <=> req[r].sent = 1)
    /\ [][\A r, s \in Reqs :
             (r # s /\ req'[r] # req[r]) => req'[s] = req[s]]_vars
    /\ \A r \in Reqs : []<>(req[r].pc \in {"idle", "done"})

\* A summarization whose upstream call failed was answered with its one 500,
\* and the history request on the other connection with its one 200.
C19_Witness ==
    \E r, s \in Reqs :
        /\ Done(r, SummaryRoutes)
        /\ req[r].failed # ""
        /\ req[r].resp.status = 500
        /\ req[r].sent = 1
        /\ Done(s, {ListRoute, SaveRoute, DeleteRoute})
        /\ req[s].resp.status = 200
        /\ req[s].sent = 1

=============================================================================
